---- MODULE Spec2Model ----
(***************************************************************************)
(* Model of the tinnitus noise matching console script                     *)
(* (src/tinnitus_noise_matching.py): the interactive matching loop         *)
(* tinnitus_matching(), the synthesis function generate_bandpass_noise()   *)
(* it calls on every turn, and the script-level code that consumes the     *)
(* returned parameters.                                                    *)
(*                                                                         *)
(* Python floats are IEEE-754 binary64.  The centre frequency is stepped   *)
(* by a float multiplication / division and the filter cut-offs are float  *)
(* sums and quotients, so the model carries binary64 values exactly: a     *)
(* value is a sign, a 53-bit significand and a binary exponent, and every  *)
(* operation rounds to nearest, ties to even.  TLC's integers are 32 bits  *)
(* wide, so significands are kept as little-endian sequences of 15-bit     *)
(* limbs.                                                                  *)
(***************************************************************************)
EXTENDS Integers, Sequences, FiniteSets, TLC

(***************************************************************************)
(* Natural numbers of arbitrary size: little-endian limb sequences with no *)
(* leading zero limb (zero is the empty sequence).  Intermediate results   *)
(* are handed on as operator arguments, which TLC evaluates once.          *)
(***************************************************************************)
LimbBits == 15
Base == 2 ^ LimbBits

Min(a, b) == IF a < b THEN a ELSE b

RECURSIVE BNorm(_)
BNorm(a) ==
  IF a = <<>> THEN <<>>
  ELSE IF a[Len(a)] = 0 THEN BNorm(SubSeq(a, 1, Len(a) - 1)) ELSE a

BLimb(a, i) == IF i >= 1 /\ i <= Len(a) THEN a[i] ELSE 0

RECURSIVE BZeros(_)
BZeros(n) == IF n <= 0 THEN <<>> ELSE <<0>> \o BZeros(n - 1)

RECURSIVE BCmpAt(_, _, _)
BCmpAt(a, b, i) ==
  IF i = 0 THEN 0
  ELSE IF a[i] > b[i] THEN 1
  ELSE IF a[i] < b[i] THEN -1
  ELSE BCmpAt(a, b, i - 1)

\* -1, 0 or 1 as a < b, a = b, a > b
BCmp(a, b) ==
  IF Len(a) > Len(b) THEN 1
  ELSE IF Len(a) < Len(b) THEN -1
  ELSE BCmpAt(a, b, Len(a))

RECURSIVE BAddFrom(_, _, _, _)
BAddFrom(a, b, i, c) ==
  IF i > Len(a) /\ i > Len(b)
  THEN (IF c = 0 THEN <<>> ELSE <<c>>)
  ELSE LET s == BLimb(a, i) + BLimb(b, i) + c
       IN  <<s % Base>> \o BAddFrom(a, b, i + 1, s \div Base)

BAdd(a, b) == BAddFrom(a, b, 1, 0)

RECURSIVE BSubFrom(_, _, _, _)
BSubFrom(a, b, i, borrow) ==
  IF i > Len(a) THEN <<>>
  ELSE LET d == a[i] - BLimb(b, i) - borrow
       IN  IF d < 0 THEN <<d + Base>> \o BSubFrom(a, b, i + 1, 1)
           ELSE <<d>> \o BSubFrom(a, b, i + 1, 0)

\* a - b for a >= b
BSub(a, b) == BNorm(BSubFrom(a, b, 1, 0))

RECURSIVE BMulSmallFrom(_, _, _, _)
BMulSmallFrom(a, d, i, c) ==
  IF i > Len(a) THEN (IF c = 0 THEN <<>> ELSE <<c>>)
  ELSE LET p == a[i] * d + c
       IN  <<p % Base>> \o BMulSmallFrom(a, d, i + 1, p \div Base)

\* a * d for a limb d
BMulSmall(a, d) == IF d = 0 THEN <<>> ELSE BMulSmallFrom(a, d, 1, 0)

RECURSIVE BMulFrom(_, _, _)
BMulFrom(a, b, j) ==
  IF j > Len(b) THEN <<>>
  ELSE BAddFrom(BMulSmall(a, b[j]), <<0>> \o BMulFrom(a, b, j + 1), 1, 0)

BMul(a, b) == BNorm(BMulFrom(a, b, 1))

RECURSIVE BDivSmallAt(_, _, _, _)
BDivSmallAt(a, d, i, r) ==
  IF i = 0 THEN <<>>
  ELSE LET cur == r * Base + a[i]
       IN  BDivSmallAt(a, d, i - 1, cur % d) \o <<cur \div d>>

\* floor(a / d) for a limb d > 0
BDivSmall(a, d) == BNorm(BDivSmallAt(a, d, Len(a), 0))

\* a * 2^n
BShl(a, n) ==
  IF a = <<>> THEN <<>>
  ELSE BZeros(n \div LimbBits) \o BMulSmall(a, 2 ^ (n % LimbBits))

\* floor(a / 2^n)
BShr(a, n) ==
  IF n \div LimbBits >= Len(a) THEN <<>>
  ELSE BDivSmall(SubSeq(a, n \div LimbBits + 1, Len(a)), 2 ^ (n % LimbBits))

RECURSIVE BitLenSmall(_)
BitLenSmall(x) == IF x = 0 THEN 0 ELSE 1 + BitLenSmall(x \div 2)

BBitLen(a) ==
  IF a = <<>> THEN 0
  ELSE LimbBits * (Len(a) - 1) + BitLenSmall(a[Len(a)])

\* the largest digit q <= guess with b * q <= cur
RECURSIVE BFixDigit(_, _, _)
BFixDigit(b, cur, q) ==
  IF BCmp(BMulSmall(b, q), cur) > 0 THEN BFixDigit(b, cur, q - 1) ELSE q

\* schoolbook long division of a by b, whose top limb has its top bit set:
\* r is the remainder so far, limb i of a comes next
RECURSIVE BDivAt(_, _, _, _)
RECURSIVE BDivDigit(_, _, _, _, _)
BDivAt(a, b, i, r) ==
  IF i = 0 THEN [q |-> <<>>, r |-> r]
  ELSE LET cur == IF r = <<>> /\ a[i] = 0 THEN <<>> ELSE <<a[i]>> \o r
           top == BLimb(cur, Len(b) + 1) * Base + BLimb(cur, Len(b))
       IN  BDivDigit(a, b, i, cur,
                     BFixDigit(b, cur, Min(Base - 1, top \div b[Len(b)])))

BDivDigit(a, b, i, cur, digit) ==
  LET rest == BDivAt(a, b, i - 1, BSub(cur, BMulSmall(b, digit)))
  IN  [q |-> rest.q \o <<digit>>, r |-> rest.r]

BDivUnshift(d, s) == [q |-> BNorm(d.q), r |-> BShr(d.r, s)]

\* quotient and remainder of a by b > 0
BDivMod(a, b) ==
  LET s == LimbBits - BitLenSmall(b[Len(b)])
  IN  BDivUnshift(BDivAt(BShl(a, s), BShl(b, s), Len(BShl(a, s)), <<>>), s)

BFromNat(n) == BNorm(<<n % Base, (n \div Base) % Base, n \div (Base * Base)>>)

BIsOdd(a) == BLimb(a, 1) % 2 = 1

(***************************************************************************)
(* binary64 values: (-1)^neg * man * 2^exp with man = 0 (zero) or          *)
(* 2^52 <= man < 2^53.  The values of this program stay far inside the     *)
(* normal range, so subnormals, infinities and NaN do not arise.           *)
(***************************************************************************)
Precision == 53

FZero == [neg |-> FALSE, man |-> <<>>, exp |-> 0]
FOne  == [neg |-> FALSE, man |-> <<0, 0, 0, 128>>, exp |-> -52]
FTwo  == [neg |-> FALSE, man |-> <<0, 0, 0, 128>>, exp |-> -51]
FHalf == [neg |-> FALSE, man |-> <<0, 0, 0, 128>>, exp |-> -53]

\* a significand that rounding up carried to 2^53 is renormalised
FPack(neg, m, e) ==
  IF BBitLen(m) > Precision
  THEN [neg |-> neg, man |-> BShr(m, 1), exp |-> e + 1]
  ELSE [neg |-> neg, man |-> m, exp |-> e]

\* q is the significand cut to 53 bits, c compares what was cut off with
\* half a unit in the last place: round to nearest, ties to even
FRoundCut(neg, q, e, c, sticky) ==
  FPack(neg,
        IF c > 0 \/ (c = 0 /\ (sticky \/ BIsOdd(q))) THEN BAdd(q, <<1>>) ELSE q,
        e)

FRoundShift(neg, n, e, sticky, sh, q) ==
  FRoundCut(neg, q, e + sh, BCmp(BSub(n, BShl(q, sh)), BShl(<<1>>, sh - 1)), sticky)

FRoundLen(neg, n, e, sticky, len) ==
  IF len = 0 THEN FZero
  ELSE IF len <= Precision
  THEN [neg |-> neg, man |-> BShl(n, Precision - len), exp |-> e - (Precision - len)]
  ELSE FRoundShift(neg, n, e, sticky, len - Precision, BShr(n, len - Precision))

\* (-1)^neg * (n + s) * 2^e, with 0 <= s < 1 and s > 0 iff sticky, rounded
FRound(neg, n, e, sticky) == FRoundLen(neg, n, e, sticky, BBitLen(n))

\* float(i) for a Python int i
FFromInt(i) == FRound(i < 0, BFromNat(IF i < 0 THEN -i ELSE i), 0, FALSE)

FIsZero(x) == x.man = <<>>

FNeg(x) == IF FIsZero(x) THEN x ELSE [x EXCEPT !.neg = ~x.neg]

FMul(x, y) ==
  IF FIsZero(x) \/ FIsZero(y) THEN FZero
  ELSE FRound(x.neg # y.neg, BMul(x.man, y.man), x.exp + y.exp, FALSE)

FDivRound(neg, e, d) == FRound(neg, d.q, e, d.r # <<>>)

FDiv(x, y) ==
  IF FIsZero(x) THEN FZero
  ELSE FDivRound(x.neg # y.neg, x.exp - y.exp - 4 * LimbBits,
                 BDivMod(BShl(x.man, 4 * LimbBits), y.man))

\* a and b are the significands of x and y at the common exponent e
FAddAligned(xneg, yneg, a, b, e, c) ==
  FRound(IF xneg = yneg \/ c > 0 THEN xneg ELSE yneg,
         IF xneg = yneg THEN BAdd(a, b)
         ELSE IF c > 0 THEN BSub(a, b) ELSE BSub(b, a),
         e, FALSE)

FAddAt(x, y, a, b, e) == FAddAligned(x.neg, y.neg, a, b, e, BCmp(a, b))

FAdd(x, y) ==
  IF FIsZero(x) THEN y
  ELSE IF FIsZero(y) THEN x
  ELSE FAddAt(x, y, BShl(x.man, x.exp - Min(x.exp, y.exp)),
              BShl(y.man, y.exp - Min(x.exp, y.exp)), Min(x.exp, y.exp))

FSub(x, y) == FAdd(x, FNeg(y))

\* -1, 0 or 1 as |x| < |y|, |x| = |y|, |x| > |y|, for non-zero x and y
FCmpMag(x, y) ==
  IF x.exp > y.exp THEN 1
  ELSE IF x.exp < y.exp THEN -1
  ELSE BCmp(x.man, y.man)

FLt(x, y) ==
  IF FIsZero(x) THEN ~FIsZero(y) /\ ~y.neg
  ELSE IF FIsZero(y) THEN x.neg
  ELSE IF x.neg # y.neg THEN x.neg
  ELSE IF x.neg THEN FCmpMag(x, y) > 0
  ELSE FCmpMag(x, y) < 0

\* the value of a natural number below 2^31 held in limbs
RECURSIVE BToNat(_)
BToNat(a) == IF a = <<>> THEN 0 ELSE a[1] + Base * BToNat(Tail(a))

\* int(x): the integer part of x, towards zero
FToInt(x) ==
  IF x.man = <<>> THEN 0
  ELSE (IF x.neg THEN -1 ELSE 1) *
       BToNat(IF x.exp >= 0 THEN BShl(x.man, x.exp) ELSE BShr(x.man, -x.exp))

(***************************************************************************)
(* Program constants of tinnitus_matching().                               *)
(***************************************************************************)
InitialSampleRate == 44100
InitialDuration   == 3
InitialCentreFreq == 2000
InitialBandwidth  == 320
BandwidthStep     == 50
DurationStep      == 1

\* octave_factor = 2 ** (1/3): the binary64 value 0x1.428a2f98d728bp+0 that
\* pow returns, 1.2599210498948732
octave_factor == [neg |-> FALSE, man |-> <<29323, 29466, 8843, 161>>, exp |-> -52]

(***************************************************************************)
(* generate_white_noise: the signal's samples are random and are not       *)
(* modelled; a signal is its number of samples.  The durations of the      *)
(* console script are ints, so duration_sec * sample_rate is an int and    *)
(* int() leaves it as it is.  numpy raises ValueError for a negative size  *)
(* and returns an empty array for size 0.                                  *)
(***************************************************************************)
WhiteNoiseSize(duration_sec, rate) == duration_sec * rate

NoError == [type |-> "", raised_in |-> ""]

generate_white_noise(duration_sec, rate) ==
  IF WhiteNoiseSize(duration_sec, rate) < 0
  THEN [ok |-> FALSE, len |-> 0,
        error |-> [type |-> "ValueError", raised_in |-> "generate_white_noise"]]
  ELSE [ok |-> TRUE, len |-> WhiteNoiseSize(duration_sec, rate), error |-> NoError]

\* max(0, x) and min(a, x) as Python evaluates them
PyMaxZero(x) == IF FLt(FZero, x) THEN x ELSE FZero
PyMin(a, x)  == IF FLt(x, a) THEN x ELSE a

\* bandwidth / 2
HalfBandwidth(width) == FDiv(FFromInt(width), FTwo)

\* lowcut = max(0, centre_freq - bandwidth / 2)
LowCut(centre, width) == PyMaxZero(FSub(centre, HalfBandwidth(width)))

\* highcut = min(sample_rate / 2, centre_freq + bandwidth / 2)
HighCut(centre, width, rate) ==
  PyMin(FDiv(FFromInt(rate), FTwo), FAdd(centre, HalfBandwidth(width)))

\* nyquist = 0.5 * sample_rate
Nyquist(rate) == FMul(FHalf, FFromInt(rate))

(***************************************************************************)
(* scipy.signal.butter(N=4, Wn=[low, high], btype='band'): the design      *)
(* raises ValueError unless 0 < low < high < 1 (its checks "filter         *)
(* critical frequencies must be greater than 0", "Wn[0] must be less than  *)
(* Wn[1]" and "Digital filter critical frequencies must be 0 < Wn < 1").   *)
(* TRUE when the filter is designed; the coefficients are not modelled.    *)
(***************************************************************************)
butter_unordered(low, high) ==
  /\ FLt(FZero, low)
  /\ FLt(FZero, high)
  /\ FLt(low, FOne)
  /\ FLt(high, FOne)

butter_closed(low, high) ==
  /\ FLt(FZero, low)
  /\ FLt(FZero, high)
  /\ FLt(low, high)
  /\ FLt(low, FOne)
  /\ ~FLt(FOne, high)

butter(low, high) ==
  /\ FLt(FZero, low)
  /\ FLt(FZero, high)
  /\ FLt(low, high)
  /\ FLt(low, FOne)
  /\ FLt(high, FOne)

(***************************************************************************)
(* generate_bandpass_noise: white noise first, then the cut-offs, the      *)
(* filter design and the filtering.  calls lists the callees reached, in   *)
(* order; lfilter returns a signal as long as its input.                   *)
(***************************************************************************)
Filtered_design_first(white_noise, designed) ==
  IF ~designed
  THEN [ok |-> FALSE, len |-> 0,
        error |-> [type |-> "ValueError", raised_in |-> "butter"],
        calls |-> <<"butter">>]
  ELSE IF ~white_noise.ok
  THEN [ok |-> FALSE, len |-> 0, error |-> white_noise.error,
        calls |-> <<"butter", "generate_white_noise">>]
  ELSE [ok |-> TRUE, len |-> white_noise.len, error |-> NoError,
        calls |-> <<"butter", "generate_white_noise", "lfilter">>]

Filtered(white_noise, designed) ==
  IF ~white_noise.ok
  THEN [ok |-> FALSE, len |-> 0, error |-> white_noise.error,
        calls |-> <<"generate_white_noise">>]
  ELSE IF ~designed
  THEN [ok |-> FALSE, len |-> 0,
        error |-> [type |-> "ValueError", raised_in |-> "butter"],
        calls |-> <<"generate_white_noise", "butter">>]
  ELSE [ok |-> TRUE, len |-> white_noise.len, error |-> NoError,
        calls |-> <<"generate_white_noise", "butter", "lfilter">>]

Normalised(white_noise, lowcut, highcut, nyquist) ==
  Filtered(white_noise, butter(FDiv(lowcut, nyquist), FDiv(highcut, nyquist)))

generate_bandpass_noise(centre, width, duration_sec, rate) ==
  Normalised(generate_white_noise(duration_sec, rate),
             LowCut(centre, width),
             HighCut(centre, width, rate),
             Nyquist(rate))

(***************************************************************************)
(* The same functions in tinnitus_noise_matching_wgui.py, where play_noise *)
(* passes the floats of the three sliders: duration_sec * sample_rate is a *)
(* binary64 product and int() cuts it to its integer part.  The filter     *)
(* design and the filtering are the code modelled above.                   *)
(***************************************************************************)
wgui_WhiteNoiseSize(duration, rate) == FToInt(FMul(duration, FFromInt(rate)))

wgui_sized(size) ==
  IF size < 0
  THEN [ok |-> FALSE, len |-> 0,
        error |-> [type |-> "ValueError", raised_in |-> "generate_white_noise"]]
  ELSE [ok |-> TRUE, len |-> size, error |-> NoError]

wgui_generate_white_noise(duration, rate) ==
  wgui_sized(wgui_WhiteNoiseSize(duration, rate))

wgui_LowCut(centre, width) == PyMaxZero(FSub(centre, FDiv(width, FTwo)))

wgui_HighCut(centre, width, rate) ==
  PyMin(FDiv(FFromInt(rate), FTwo), FAdd(centre, FDiv(width, FTwo)))

wgui_generate_bandpass_noise(centre, width, duration, rate) ==
  Normalised(wgui_generate_white_noise(duration, rate),
             wgui_LowCut(centre, width),
             wgui_HighCut(centre, width, rate),
             Nyquist(rate))

(***************************************************************************)
(* The command dispatch of the matching loop, lines 120-137.               *)
(***************************************************************************)
IncreaseCentre_additive(centre) == FAdd(centre, octave_factor)

IncreaseCentre(centre)    == FMul(centre, octave_factor)
DecreaseCentre_subtractive(centre) == FSub(centre, octave_factor)

DecreaseCentre(centre)    == FDiv(centre, octave_factor)
IncreaseBandwidth(width)  == width + BandwidthStep
DecreaseBandwidth_clamped(width) ==
  IF width - BandwidthStep > 0 THEN width - BandwidthStep ELSE 0

DecreaseBandwidth(width)  == width - BandwidthStep
IncreaseDuration(seconds) == seconds + DurationStep
DecreaseDuration(seconds) == seconds - DurationStep

Recognized   == {"1", "2", "3", "4", "5", "6", "7", "0"}
Unrecognized == {"8", ""}
Inputs       == Recognized \cup Unrecognized

InvalidInputMessage == "Invalid input, please try again."

NewCentre(c, centre) ==
  CASE c = "1" -> IncreaseCentre(centre)
    [] c = "2" -> DecreaseCentre(centre)
    [] OTHER   -> centre

NewBandwidth_on_centre_keys(c, width) ==
  CASE c \in {"1", "3"} -> IncreaseBandwidth(width)
    [] c \in {"2", "4"} -> DecreaseBandwidth(width)
    [] OTHER   -> width

NewBandwidth(c, width) ==
  CASE c = "3" -> IncreaseBandwidth(width)
    [] c = "4" -> DecreaseBandwidth(width)
    [] OTHER   -> width

NewDuration(c, seconds) ==
  CASE c = "5" -> IncreaseDuration(seconds)
    [] c = "6" -> DecreaseDuration(seconds)
    [] OTHER   -> seconds

\* what the branch taken prints
Feedback(c) == IF c \in Recognized THEN "" ELSE InvalidInputMessage

NextPc_break_after_decrease(c) ==
  IF c \in {"0", "6"} THEN "returned" ELSE "generate"

NextPc_asks_again(c) == IF c = "0" THEN "returned" ELSE "input"

NextPc_finish_continues(c) == "generate"

NextPc_invalid_asks_again(c) ==
  IF c = "0" THEN "returned" ELSE IF c \in Recognized THEN "generate" ELSE "input"

NextPc_replay_asks_again(c) ==
  IF c = "0" THEN "returned" ELSE IF c = "7" THEN "input" ELSE "generate"

\* '0' breaks out of the loop and returns; '7' continues; every other
\* branch falls through to the top of the loop, the invalid one included
NextPc(c) == IF c = "0" THEN "returned" ELSE "generate"

Snapshot_swapped(centre, width, rate, seconds) ==
  [centre_freq |-> centre, bandwidth |-> width, sample_rate |-> seconds,
   duration_sec |-> rate]

\* return centre_freq, bandwidth, sample_rate, duration_sec
Snapshot(centre, width, rate, seconds) ==
  [centre_freq |-> centre, bandwidth |-> width, sample_rate |-> rate,
   duration_sec |-> seconds]

(***************************************************************************)
(* Bounds of the exploration: how many steps the listener may move each    *)
(* parameter away from its initial value, and how many centre commands the *)
(* centre walk of SpecCentre takes.                                        *)
(***************************************************************************)
MaxCentreUp      == 2
MaxCentreDown    == 2
MaxBandwidthUp   == 1
MaxBandwidthDown == 7
MaxDurationUp    == 1
MaxDurationDown  == 4
MaxCentreSteps   == 13

RECURSIVE StepsUp(_, _)
StepsUp(centre, n) == IF n = 0 THEN centre ELSE StepsUp(IncreaseCentre(centre), n - 1)

RECURSIVE StepsDown(_, _)
StepsDown(centre, n) == IF n = 0 THEN centre ELSE StepsDown(DecreaseCentre(centre), n - 1)

CentreCeiling == StepsUp(FFromInt(InitialCentreFreq), MaxCentreUp)
CentreFloor   == StepsDown(FFromInt(InitialCentreFreq), MaxCentreDown)

VARIABLES
  centre_freq,    \* tinnitus_matching's local centre_freq, a binary64 value
  bandwidth,      \* its local bandwidth, an int
  duration_sec,   \* its local duration_sec, an int
  sample_rate,    \* its local sample_rate, an int
  pc,             \* where the script is
  user_input,     \* the last string input() returned
  noise_signal,   \* <<>> or <<the last signal generated>>
  stream,         \* the sound device: what it plays, and whether it still does
  printed,        \* what the script last printed, the menu aside
  exception,      \* <<>> or <<the exception that ended the script>>
  matched,        \* <<>> or <<the tuple tinnitus_matching returned>>
  matched_noise,  \* <<>> or <<the signal generated from the returned tuple>>
  calls,          \* history: calls completed since input() last returned
  reached,        \* history: callees reached by the last generate_bandpass_noise
  thirds,         \* history of SpecCentre: increases minus decreases of the centre
  steps,          \* history of SpecCentre: centre commands so far
  events          \* the window's event queue: clicks on Play not yet handled

vars == <<centre_freq, bandwidth, duration_sec, sample_rate, pc, user_input,
          noise_signal, stream, printed, exception, matched, matched_noise,
          calls, reached, thirds, steps, events>>

params == <<centre_freq, bandwidth, duration_sec, sample_rate>>

NoCalls == [generate |-> 0, play |-> 0]

\* the script's state when the loop is entered with the given parameters
Entered(centre, width, seconds, rate) ==
  /\ centre_freq = centre
  /\ bandwidth = width
  /\ duration_sec = seconds
  /\ sample_rate = rate
  /\ pc = "generate"
  /\ user_input = "none"
  /\ noise_signal = <<>>
  /\ stream = [active |-> FALSE, frames |-> 0]
  /\ printed = "Starting tinnitus matching."
  /\ exception = <<>>
  /\ matched = <<>>
  /\ matched_noise = <<>>
  /\ calls = NoCalls
  /\ reached = <<>>
  /\ thirds = 0
  /\ steps = 0
  /\ events = 0

Init ==
  Entered(FFromInt(InitialCentreFreq), InitialBandwidth, InitialDuration,
          InitialSampleRate)

Signal(r, centre, width, seconds) ==
  [len |-> r.len, centre_freq |-> centre, bandwidth |-> width,
   duration_sec |-> seconds]

\* line 102: noise_signal = generate_bandpass_noise(...); an exception it
\* raises is caught nowhere and ends the script
Generated(r) ==
  /\ calls' = [calls EXCEPT !.generate = @ + 1]
  /\ reached' = r.calls
  /\ IF r.ok
     THEN /\ noise_signal' = <<Signal(r, centre_freq, bandwidth, duration_sec)>>
          /\ pc' = "play"
          /\ UNCHANGED exception
     ELSE /\ exception' = <<r.error>>
          /\ pc' = "raised"
          /\ UNCHANGED noise_signal

Generate ==
  /\ pc = "generate"
  /\ Generated(generate_bandpass_noise(centre_freq, bandwidth, duration_sec, sample_rate))
  /\ UNCHANGED <<params, user_input, stream, printed, matched, matched_noise,
                 thirds, steps, events>>

\* play_sound, line 75: sd.play starts the playback and returns
Play ==
  /\ pc = "play"
  /\ stream' = [active |-> TRUE, frames |-> noise_signal[1].len]
  /\ pc' = "wait"
  /\ UNCHANGED <<params, user_input, noise_signal, printed, exception, matched,
                 matched_noise, calls, reached, thirds, steps, events>>

\* the sound device reaches the end of the signal
StreamEnds ==
  /\ stream.active
  /\ stream' = [stream EXCEPT !.active = FALSE]
  /\ UNCHANGED <<params, pc, user_input, noise_signal, printed, exception,
                 matched, matched_noise, calls, reached, thirds, steps, events>>

sd_wait_returns_at_once(s) == TRUE

\* sd.wait() returns once the playback has ended
sd_wait(s) == ~s.active

\* play_sound, line 78: sd.wait returns once the playback has ended; the menu
\* is printed and input() is called
Wait ==
  /\ pc = "wait"
  /\ sd_wait(stream)
  /\ pc' = "input"
  /\ calls' = [calls EXCEPT !.play = @ + 1]
  /\ UNCHANGED <<params, user_input, noise_signal, stream, printed, exception,
                 matched, matched_noise, reached, thirds, steps, events>>

\* the inputs the exploration lets the listener give in the current state
Allowed(c) ==
  CASE c = "1" -> FLt(centre_freq, CentreCeiling)
    [] c = "2" -> FLt(CentreFloor, centre_freq)
    [] c = "3" -> bandwidth < InitialBandwidth + BandwidthStep * MaxBandwidthUp
    [] c = "4" -> bandwidth > InitialBandwidth - BandwidthStep * MaxBandwidthDown
    [] c = "5" -> duration_sec < InitialDuration + DurationStep * MaxDurationUp
    [] c = "6" -> duration_sec > InitialDuration - DurationStep * MaxDurationDown
    [] OTHER   -> TRUE

\* lines 118-139: input() returns c and the if/elif chain runs; on '0' the
\* function returns and line 142 binds the tuple
Command(c) ==
  /\ pc = "input"
  /\ Allowed(c)
  /\ user_input' = c
  /\ calls' = NoCalls
  /\ centre_freq' = NewCentre(c, centre_freq)
  /\ bandwidth' = NewBandwidth(c, bandwidth)
  /\ duration_sec' = NewDuration(c, duration_sec)
  /\ printed' = Feedback(c)
  /\ pc' = NextPc(c)
  /\ matched' = IF NextPc(c) = "returned"
                THEN <<Snapshot(centre_freq', bandwidth', sample_rate, duration_sec')>>
                ELSE matched
  /\ UNCHANGED <<sample_rate, noise_signal, stream, exception, matched_noise,
                 reached, thirds, steps, events>>

\* lines 144-146: the matched parameters are printed and
\* matched_noise = generate_bandpass_noise(matched_freq, matched_bandwidth,
\* duration_sec) runs with the default sample rate
Rematched(m, r) ==
  /\ reached' = r.calls
  /\ IF r.ok
     THEN /\ matched_noise' = <<Signal(r, m.centre_freq, m.bandwidth, m.duration_sec)>>
          /\ pc' = "plot"
          /\ UNCHANGED exception
     ELSE /\ exception' = <<r.error>>
          /\ pc' = "raised"
          /\ UNCHANGED matched_noise

Rematch ==
  /\ pc = "returned"
  /\ printed' = "Matched tinnitus parameters"
  /\ Rematched(matched[1],
               generate_bandpass_noise(matched[1].centre_freq, matched[1].bandwidth,
                                       matched[1].duration_sec, InitialSampleRate))
  /\ UNCHANGED <<params, user_input, noise_signal, stream, matched, calls,
                 thirds, steps, events>>

Next ==
  \/ Generate
  \/ Play
  \/ StreamEnds
  \/ Wait
  \/ \E c \in Inputs : Command(c)
  \/ Rematch

Spec == Init /\ [][Next]_vars

(***************************************************************************)
(* SpecShape: generate_bandpass_noise as a function of its arguments.  The *)
(* loop is entered with arguments drawn from the sets below and the call   *)
(* of line 102 is made once.                                               *)
(***************************************************************************)
ShapeRates      == {InitialSampleRate, 8000}
ShapeCentres    == {10, 50, 2000, 3999, 4000, 4001, 22049, 22050, 22051, 30000}
ShapeBandwidths == {-50, 0, 5, 200, 5000}
ShapeDurations  == {-1, 0, 1, InitialDuration}

InitShape ==
  \E c \in ShapeCentres, w \in ShapeBandwidths, d \in ShapeDurations, r \in ShapeRates :
    Entered(FFromInt(c), w, d, r)

SpecShape == InitShape /\ [][Generate]_vars

(***************************************************************************)
(* SpecCentre: the centre commands alone, '1' and '2' in any order from    *)
(* the initial centre, with the history of how many were given.            *)
(***************************************************************************)
CentreCommand(c) ==
  /\ steps < MaxCentreSteps
  /\ centre_freq' = NewCentre(c, centre_freq)
  /\ thirds' = IF c = "1" THEN thirds + 1 ELSE thirds - 1
  /\ steps' = steps + 1
  /\ user_input' = c
  /\ UNCHANGED <<bandwidth, duration_sec, sample_rate, pc, noise_signal, stream,
                 printed, exception, matched, matched_noise, calls, reached,
                 events>>

NextCentre == \E c \in {"1", "2"} : CentreCommand(c)

SpecCentre == Init /\ [][NextCentre]_vars

(***************************************************************************)
(* tinnitus_noise_matching_wgui.py: a window with three sliders, a Play    *)
(* button and an Exit button.  The mainloop handles one event at a time:   *)
(* a click on Play made while play_noise runs waits in the queue until     *)
(* play_noise has returned.  An exception raised inside play_noise is      *)
(* reported by tkinter and the mainloop goes on.                           *)
(***************************************************************************)
centre_freq_slider == [from_ |-> 100, to_ |-> 8000]
bandwidth_slider   == [from_ |-> 50, to_ |-> 1000]
duration_slider    == [from_ |-> 1, to_ |-> 10]

MaxQueuedClicks == 2

\* slider positions explored: Hz, Hz and thousandths of a second
SliderCentres ==
  {c \in {100, 500, 2000, 8000} :
     centre_freq_slider.from_ <= c /\ c <= centre_freq_slider.to_}
SliderBandwidths ==
  {w \in {50, 320, 1000} : bandwidth_slider.from_ <= w /\ w <= bandwidth_slider.to_}
SliderMillis ==
  {d \in {1000, 1150, 2999, 3000, 10000} :
     duration_slider.from_ * 1000 <= d /\ d <= duration_slider.to_ * 1000}

Millis(d) == FDiv(FFromInt(d), FFromInt(1000))

wgui_Init ==
  /\ centre_freq = FFromInt(2000)
  /\ bandwidth = FFromInt(320)
  /\ duration_sec = FFromInt(3)
  /\ sample_rate = 44100
  /\ pc = "mainloop"
  /\ user_input = "none"
  /\ noise_signal = <<>>
  /\ stream = [active |-> FALSE, frames |-> 0]
  /\ printed = ""
  /\ exception = <<>>
  /\ matched = <<>>
  /\ matched_noise = <<>>
  /\ calls = NoCalls
  /\ reached = <<>>
  /\ thirds = 0
  /\ steps = 0
  /\ events = 0

\* the listener drags a slider; update_params rewrites the three labels
update_params(centre, width, seconds) ==
  /\ pc = "mainloop"
  /\ centre_freq' = centre
  /\ bandwidth' = width
  /\ duration_sec' = seconds
  /\ printed' = "labels"
  /\ UNCHANGED <<sample_rate, pc, user_input, noise_signal, stream, exception,
                 matched, matched_noise, calls, reached, thirds, steps, events>>

Scale ==
  \/ \E c \in SliderCentres : update_params(FFromInt(c), bandwidth, duration_sec)
  \/ \E w \in SliderBandwidths : update_params(centre_freq, FFromInt(w), duration_sec)
  \/ \E d \in SliderMillis : update_params(centre_freq, bandwidth, Millis(d))

\* the listener clicks Play, at any time while the window exists
ClickPlay ==
  /\ pc \in {"mainloop", "play_sound", "sd.wait"}
  /\ events < MaxQueuedClicks
  /\ events' = events + 1
  /\ UNCHANGED <<params, pc, user_input, noise_signal, stream, printed, exception,
                 matched, matched_noise, calls, reached, thirds, steps>>

\* lines 77-82: the mainloop takes a click and runs play_noise up to the
\* call of play_sound
wgui_Generated(r) ==
  /\ calls' = [generate |-> 1, play |-> 0]
  /\ reached' = r.calls
  /\ IF r.ok
     THEN /\ noise_signal' = <<Signal(r, centre_freq, bandwidth, duration_sec)>>
          /\ pc' = "play_sound"
          /\ exception' = <<>>
          /\ UNCHANGED printed
     ELSE /\ noise_signal' = <<>>
          /\ exception' = <<r.error>>
          /\ printed' = "Exception in Tkinter callback"
          /\ pc' = "mainloop"

play_noise ==
  /\ pc = "mainloop"
  /\ events > 0
  /\ events' = events - 1
  /\ wgui_Generated(wgui_generate_bandpass_noise(centre_freq, bandwidth,
                                                 duration_sec, sample_rate))
  /\ UNCHANGED <<params, user_input, stream, matched, matched_noise, thirds, steps>>

\* line 26: sd.play
wgui_Play ==
  /\ pc = "play_sound"
  /\ stream' = [active |-> TRUE, frames |-> noise_signal[1].len]
  /\ pc' = "sd.wait"
  /\ UNCHANGED <<params, user_input, noise_signal, printed, exception, matched,
                 matched_noise, calls, reached, thirds, steps, events>>

\* line 27: sd.wait returns, then play_sound and play_noise do
wgui_Wait ==
  /\ pc = "sd.wait"
  /\ sd_wait(stream)
  /\ pc' = "mainloop"
  /\ noise_signal' = <<>>
  /\ calls' = [calls EXCEPT !.play = @ + 1]
  /\ UNCHANGED <<params, user_input, stream, printed, exception, matched,
                 matched_noise, reached, thirds, steps, events>>

\* the Exit button: root.destroy ends the mainloop
Destroy ==
  /\ pc = "mainloop"
  /\ pc' = "destroyed"
  /\ UNCHANGED <<params, user_input, noise_signal, stream, printed, exception,
                 matched, matched_noise, calls, reached, thirds, steps, events>>

NextGui ==
  \/ Scale
  \/ ClickPlay
  \/ play_noise
  \/ wgui_Play
  \/ StreamEnds
  \/ wgui_Wait
  \/ Destroy

SpecGui == wgui_Init /\ [][NextGui]_vars

\* either script
InitBoth == Init \/ wgui_Init

NextBoth == Next \/ NextGui

SpecBoth == InitBoth /\ [][NextBoth]_vars

(***************************************************************************)
(* Exact statements about binary64 results, in integer arithmetic on the   *)
(* significands.                                                           *)
(***************************************************************************)
BDist(a, b) == IF BCmp(a, b) >= 0 THEN BSub(a, b) ELSE BSub(b, a)

Max3(a, b) == IF a > b THEN a ELSE b

BCube(a) == BMul(a, BMul(a, a))

IsBinary64(r) == BBitLen(r.man) = Precision

\* r is x * y rounded to nearest, ties to even: |r - x*y| <= ulp(r) / 2
NearestProduct(r, x, y) ==
  LET d    == r.exp - (x.exp + y.exp)
      dist == BDist(BShl(r.man, d), BMul(x.man, y.man))
      c    == BCmp(BShl(dist, 1), BShl(<<1>>, d))
  IN  /\ IsBinary64(r)
      /\ r.neg = (x.neg # y.neg)
      /\ d >= 0
      /\ c < 0 \/ (c = 0 /\ ~BIsOdd(r.man))

\* r is x / y rounded to nearest, ties to even: |r*y - x| <= y * ulp(r) / 2
NearestQuotient(r, x, y) ==
  LET t    == x.exp - (r.exp + y.exp)
      dist == BDist(BMul(r.man, y.man), BShl(x.man, t))
      c    == BCmp(BShl(dist, 1), y.man)
  IN  /\ IsBinary64(r)
      /\ r.neg = (x.neg # y.neg)
      /\ t >= 0
      /\ c < 0 \/ (c = 0 /\ ~BIsOdd(r.man))

\* octave_factor = m * 2^-52 is the binary64 value nearest the cube root of
\* 2: (m - 1/2)^3 < 2 * 2^156 < (m + 1/2)^3
OctaveFactorIsCubeRootOfTwo ==
  /\ IsBinary64(octave_factor)
  /\ octave_factor.exp = -52
  /\ BCmp(BCube(BSub(BShl(octave_factor.man, 1), <<1>>)), BShl(<<1>>, 160)) < 0
  /\ BCmp(BCube(BAdd(BShl(octave_factor.man, 1), <<1>>)), BShl(<<1>>, 160)) > 0

\* a step of the script that reads a command
CommandRead == pc = "input" /\ pc' # "input"

Active == pc \in {"generate", "play", "wait", "input"}

SignalOf(centre, width, seconds) ==
  [len |-> seconds * 44100, centre_freq |-> centre, bandwidth |-> width,
   duration_sec |-> seconds]

(***************************************************************************)
(* C1: every adjusting command gives the parameter the value of the        *)
(* transition table: '1' sets the centre to the binary64 product of the    *)
(* centre and 2^(1/3), '2' to their binary64 quotient, '3' and '4' add and *)
(* subtract 50 Hz of bandwidth, '5' and '6' add and subtract 1 s.          *)
(***************************************************************************)
C1_StepValues ==
  /\ user_input' = "1" =>
       /\ NearestProduct(centre_freq', centre_freq, octave_factor)
       /\ OctaveFactorIsCubeRootOfTwo
  /\ user_input' = "2" =>
       /\ NearestQuotient(centre_freq', centre_freq, octave_factor)
       /\ OctaveFactorIsCubeRootOfTwo
  /\ user_input' = "3" => bandwidth' = bandwidth + 50
  /\ user_input' = "4" => bandwidth' = bandwidth - 50
  /\ user_input' = "5" => duration_sec' = duration_sec + 1
  /\ user_input' = "6" => duration_sec' = duration_sec - 1

C1_CommandsStepAsTabled == [][CommandRead => C1_StepValues]_vars

\* defaults, then '1', then '3': centre 2519.8420997897465 Hz, 370 Hz, 3 s
C1_ScenarioReached ==
  /\ user_input = "3"
  /\ centre_freq = [neg |-> FALSE, man |-> <<8668, 20328, 16060, 157>>, exp |-> -41]
  /\ bandwidth = 370
  /\ duration_sec = 3
  /\ sample_rate = 44100

(***************************************************************************)
(* C2: a synthesis that fails leaves the session active, with the failure  *)
(* reported as feedback: no exception ever ends the script.                *)
(***************************************************************************)
C2_FailureKeepsSessionActive ==
  exception # <<>> => Active /\ printed # "" /\ printed # InvalidInputMessage

(***************************************************************************)
(* C3, as claimed: after an unrecognized input no synthesis and no         *)
(* playback happens before the next input is read.                         *)
(***************************************************************************)
C3_NoSynthesisAfterUnrecognized ==
  user_input \in Unrecognized => Active /\ calls = NoCalls

(***************************************************************************)
(* C3, amended: an unrecognized input changes no parameter, prints the     *)
(* invalid-input message and keeps the session active; the loop then       *)
(* generates and plays the unchanged parameters once before it reads the   *)
(* next input.                                                             *)
(***************************************************************************)
C3_UnrecognizedStep ==
  /\ UNCHANGED params
  /\ printed' = "Invalid input, please try again."
  /\ pc' = "generate"
  /\ calls' = NoCalls

C3_UnrecognizedTurn ==
  /\ Active
  /\ printed = "Invalid input, please try again."
  /\ pc = "input" =>
       /\ calls = [generate |-> 1, play |-> 1]
       /\ noise_signal = <<SignalOf(centre_freq, bandwidth, duration_sec)>>
       /\ stream = [active |-> FALSE, frames |-> noise_signal[1].len]

C3_UnrecognizedReplays ==
  /\ [][CommandRead /\ user_input' \in Unrecognized => C3_UnrecognizedStep]_vars
  /\ [](user_input \in Unrecognized => C3_UnrecognizedTurn)

C3_UnrecognizedPlayed == user_input = "8" /\ pc = "input" /\ calls.play = 1

(***************************************************************************)
(* C4: '0' changes no parameter, causes no synthesis and no playback, and  *)
(* the tuple returned holds the parameters as they are, with sample rate   *)
(* 44100.                                                                  *)
(***************************************************************************)
C4_FinishStep ==
  /\ UNCHANGED <<params, noise_signal, stream, reached>>
  /\ pc' = "returned"
  /\ calls' = NoCalls
  /\ matched' = <<[centre_freq |-> centre_freq, bandwidth |-> bandwidth,
                   sample_rate |-> 44100, duration_sec |-> duration_sec]>>

C4_Returned ==
  /\ calls = NoCalls
  /\ ~stream.active
  /\ matched = <<[centre_freq |-> centre_freq, bandwidth |-> bandwidth,
                  sample_rate |-> 44100, duration_sec |-> duration_sec]>>

C4_FinishReturnsSnapshot ==
  /\ [][CommandRead /\ user_input' = "0" => C4_FinishStep]_vars
  /\ [](pc = "returned" => C4_Returned)

\* the scenario of C1 followed by '0'
C4_ScenarioReturned ==
  /\ pc = "returned"
  /\ matched = <<[centre_freq |-> [neg |-> FALSE, man |-> <<8668, 20328, 16060, 157>>,
                                   exp |-> -41],
                  bandwidth |-> 370, sample_rate |-> 44100, duration_sec |-> 3]>>

(***************************************************************************)
(* C5: '7' changes no parameter, and the loop generates and plays the      *)
(* unchanged parameters once before it reads the next input.               *)
(***************************************************************************)
C5_ReplayStep ==
  /\ UNCHANGED params
  /\ pc' = "generate"
  /\ calls' = NoCalls

C5_ReplayTurn ==
  /\ Active
  /\ pc = "input" =>
       /\ calls = [generate |-> 1, play |-> 1]
       /\ noise_signal = <<SignalOf(centre_freq, bandwidth, duration_sec)>>
       /\ stream = [active |-> FALSE, frames |-> noise_signal[1].len]

C5_ReplayKeepsState ==
  /\ [][CommandRead /\ user_input' = "7" => C5_ReplayStep]_vars
  /\ [](user_input = "7" => C5_ReplayTurn)

C5_Replayed ==
  /\ user_input = "7"
  /\ pc = "input"
  /\ calls = [generate |-> 1, play |-> 1]
  /\ bandwidth = 270
(***************************************************************************)
(* The cut-offs of the filter, exactly, for a centre of c Hz given as an   *)
(* int: twice max(0, c - w/2) and twice min(r/2, c + w/2).                 *)
(***************************************************************************)
TwiceLowCut(c, w)     == IF 2 * c - w > 0 THEN 2 * c - w ELSE 0
TwiceHighCut(c, w, r) == Min(r, 2 * c + w)

Called == pc # "generate"

Range(f) == {f[i] : i \in DOMAIN f}

\* generate_bandpass_noise raised: no filter was applied, no signal returned
Failed ==
  /\ pc = "raised"
  /\ noise_signal = <<>>
  /\ "lfilter" \notin Range(reached)
  /\ exception = <<[type |-> "ValueError",
                    raised_in |-> IF duration_sec < 0 THEN "generate_white_noise"
                                  ELSE "butter"]>>

(***************************************************************************)
(* C6: the call fails, and designs no filter, whenever the clamped         *)
(* cut-offs do not satisfy lowCut < highCut; so it does for every centre   *)
(* above Nyquist and for every bandwidth <= 0.                             *)
(***************************************************************************)
C6_CrossedCutoffsFail ==
  \A c \in ShapeCentres :
    /\ Called
    /\ centre_freq = FFromInt(c)
    /\ \/ TwiceLowCut(c, bandwidth) >= TwiceHighCut(c, bandwidth, sample_rate)
       \/ 2 * c > sample_rate
       \/ bandwidth <= 0
    => Failed

\* a centre inside the band with a negative bandwidth: lowCut > highCut
C6_NegativeBandwidthFailed ==
  /\ pc = "raised"
  /\ centre_freq = FFromInt(2000)
  /\ bandwidth = -50
  /\ duration_sec = 1
  /\ exception[1].raised_in = "butter"

(***************************************************************************)
(* C7: for clamped cut-offs with 0 <= lowCut < highCut <= Nyquist and a    *)
(* positive duration the call returns a signal of duration x sampleRate    *)
(* samples, also when the lower cut-off clamps to 0.                       *)
(***************************************************************************)
C7_ValidCutoffsShape ==
  \A c \in ShapeCentres :
    /\ Called
    /\ centre_freq = FFromInt(c)
    /\ TwiceLowCut(c, bandwidth) < TwiceHighCut(c, bandwidth, sample_rate)
    /\ duration_sec > 0
    => /\ pc = "play"
       /\ noise_signal # <<>>
       /\ noise_signal[1].len = duration_sec * sample_rate

(***************************************************************************)
(* C8: a centre equal to Nyquist with a positive bandwidth makes the call  *)
(* fail: no filter is designed and no signal is returned.                  *)
(***************************************************************************)
C8_CentreAtNyquistFails ==
  \A c \in ShapeCentres :
    /\ Called
    /\ centre_freq = FFromInt(c)
    /\ 2 * c = sample_rate
    /\ bandwidth > 0
    => Failed

C8_NyquistCentreFailed ==
  /\ pc = "raised"
  /\ centre_freq = FFromInt(22050)
  /\ sample_rate = 44100
  /\ bandwidth = 200
  /\ duration_sec = 3
  /\ exception[1].raised_in = "butter"

(***************************************************************************)
(* C9: with the duration stepped down to 0 the next synthesis is rejected  *)
(* by the noise source, and the session stays active at duration 0.        *)
(***************************************************************************)
C9_ZeroDurationIsRejected ==
  duration_sec = 0 /\ calls.generate = 1 =>
    /\ Active
    /\ reached = <<"generate_white_noise">>
    /\ noise_signal # <<SignalOf(centre_freq, bandwidth, 0)>>

(***************************************************************************)
(* C10, as claimed: '1' then '2', and '2' then '1', give back the centre   *)
(* they started from, and the centre is 2000 * 2^(k/3) for k the number of *)
(* increases less the number of decreases.                                 *)
(***************************************************************************)
\* the cube of the centre m * 2^e against 2000^3 * 2^k, scaled by 2^shift
CentreCubed(centre, k, shift) ==
  BShl(BCube(centre.man), Max3(0, 3 * centre.exp + shift - k))

TargetCubed(centre, k, shift) ==
  BShl(BCube(BFromNat(2000)), Max3(0, k - 3 * centre.exp - shift))

C10_RoundTripExact ==
  /\ DecreaseCentre(IncreaseCentre(centre_freq)) = centre_freq
  /\ IncreaseCentre(DecreaseCentre(centre_freq)) = centre_freq
  /\ CentreCubed(centre_freq, thirds, 0) = TargetCubed(centre_freq, thirds, 0)

(***************************************************************************)
(* C10, amended: the round trips give back the centre within a relative    *)
(* error of 2^-51, and after n centre commands the centre is within a      *)
(* relative error of n * 2^-51 of 2000 * 2^(k/3).                          *)
(***************************************************************************)
\* |a - b| <= b * 2^-51 for positive binary64 values
WithinTwoRoundings(a, b) ==
  LET e == Min(a.exp, b.exp)
      x == BShl(a.man, a.exp - e)
      y == BShl(b.man, b.exp - e)
  IN  /\ ~a.neg /\ ~b.neg
      /\ BCmp(BShl(BDist(x, y), 51), y) <= 0

\* (1 - n/2^51)^3 <= centre^3 / (2000^3 * 2^k) <= (1 + n/2^51)^3
WithinStepRoundings(centre, k, n) ==
  LET one == BShl(<<1>>, 51)
      c3  == CentreCubed(centre, k, 153)
      t3  == TargetCubed(centre, k, 153)
  IN  /\ ~centre.neg
      /\ BCmp(BMul(BCube(BSub(one, BFromNat(n))), t3), c3) <= 0
      /\ BCmp(c3, BMul(BCube(BAdd(one, BFromNat(n))), t3)) <= 0

C10_RoundTripWithinTolerance ==
  /\ WithinTwoRoundings(DecreaseCentre(IncreaseCentre(centre_freq)), centre_freq)
  /\ WithinTwoRoundings(IncreaseCentre(DecreaseCentre(centre_freq)), centre_freq)
  /\ WithinStepRoundings(centre_freq, thirds, steps)

\* a centre the round trip does not give back exactly
C10_InexactRoundTrip ==
  /\ steps > 0
  /\ DecreaseCentre(IncreaseCentre(centre_freq)) # centre_freq

(***************************************************************************)
(* C11: the dispatch clamps nothing: '4' and '6' take their full step off  *)
(* the bandwidth and the duration also when the result is zero or          *)
(* negative, '3' and '5' add theirs, '1' raises and '2' lowers the centre; *)
(* a bandwidth of -30 Hz and durations <= 0 are reached.                   *)
(***************************************************************************)
C11_FullStep ==
  /\ user_input' = "1" => FLt(centre_freq, centre_freq')
  /\ user_input' = "2" => FLt(centre_freq', centre_freq) /\ FLt(FZero, centre_freq')
  /\ user_input' = "3" => bandwidth' - bandwidth = 50
  /\ user_input' = "4" => bandwidth - bandwidth' = 50
  /\ user_input' = "5" => duration_sec' - duration_sec = 1
  /\ user_input' = "6" => duration_sec - duration_sec' = 1

C11_DispatchClampsNothing == [][CommandRead => C11_FullStep]_vars

\* seven '4' from 320 Hz and three '6' from 3 s
C11_NegativeBandwidthReached ==
  /\ user_input = "4"
  /\ bandwidth = -30
  /\ duration_sec = 0

(***************************************************************************)
(* C12: the noise generated for a positive duration, the sliders'          *)
(* fractional durations included, has round(duration x sampleRate)         *)
(* samples.                                                                *)
(***************************************************************************)
\* n / 2^k rounded to the nearest integer, ties to even
RoundedShift(n, k, q) ==
  LET c == BCmp(BNorm(BShl(BSub(n, BShl(q, k)), 1)), BShl(<<1>>, k))
  IN  IF c > 0 \/ (c = 0 /\ BIsOdd(q)) THEN BAdd(q, <<1>>) ELSE q

\* round(duration * rate), of the exact product, for a positive duration
RoundedProduct(duration, rate) ==
  IF duration.exp >= 0
  THEN BToNat(BShl(BMulSmall(duration.man, rate), duration.exp))
  ELSE BToNat(RoundedShift(BMul(duration.man, BFromNat(rate)), -duration.exp,
                           BShr(BMul(duration.man, BFromNat(rate)), -duration.exp)))

C12_LengthIsRounded ==
  noise_signal # <<>> =>
    noise_signal[1].len = RoundedProduct(noise_signal[1].duration_sec, sample_rate)

(***************************************************************************)
(* C13: once '0' has been read the script reads no further input, starts   *)
(* no playback and changes no parameter and not the tuple returned.        *)
(***************************************************************************)
C13_Finished ==
  /\ pc \in {"returned", "plot", "raised"}
  /\ ~stream.active
  /\ calls.play = 0

C13_FinishedStep ==
  /\ user_input' = "0"
  /\ UNCHANGED <<params, stream, noise_signal, matched>>
  /\ pc' \notin {"generate", "play", "wait", "input"}

C13_FinishedIsTerminal ==
  /\ [](user_input = "0" => C13_Finished)
  /\ [][user_input = "0" => C13_FinishedStep]_vars

\* the script has gone on past the return of tinnitus_matching
C13_WentOnAfterFinish ==
  /\ user_input = "0"
  /\ pc = "plot"
  /\ bandwidth = 270

(***************************************************************************)
(* C14, as claimed: the filter is designed before the noise is generated,  *)
(* so a synthesis that the filter design rejects has generated no noise.   *)
(***************************************************************************)
C14_DesignBeforeNoise ==
  /\ exception # <<>> /\ exception[1].raised_in = "butter" =>
       "generate_white_noise" \notin Range(reached)
  /\ reached # <<>> => reached[1] = "butter"

(***************************************************************************)
(* C14, amended: within one synthesis the white noise is generated first,  *)
(* then the cut-offs are computed and the filter is designed, then the     *)
(* noise is filtered, and the result is played; a synthesis that the       *)
(* filter design rejects has generated its noise, and has neither filtered *)
(* nor played it.                                                          *)
(***************************************************************************)
C14_Order == <<"generate_white_noise", "butter", "lfilter">>

C14_NoiseBeforeDesign ==
  /\ \E n \in 0..3 : reached = SubSeq(C14_Order, 1, n)
  /\ exception # <<>> /\ exception[1].raised_in = "butter" =>
       /\ reached = SubSeq(C14_Order, 1, 2)
       /\ pc = "raised"
       /\ ~stream.active
       /\ calls.play = 0
  /\ pc \in {"play", "wait"} \/ stream.active =>
       /\ reached = C14_Order
       /\ noise_signal # <<>>

\* the design rejected a negative bandwidth after the noise was generated
C14_RejectedAfterNoise ==
  /\ pc = "raised"
  /\ bandwidth = -30
  /\ duration_sec = 3
  /\ reached = <<"generate_white_noise", "butter">>

(***************************************************************************)
(* C15: while a playback is in progress the script waits in sd.wait: it    *)
(* reads no command and starts no synthesis and no second playback; every  *)
(* command is read after one synthesis and one completed playback.  In the *)
(* window, play_noise starts only when no play_noise is running.           *)
(***************************************************************************)
C15_Playing == stream.active => pc \in {"wait", "sd.wait"}

C15_Step ==
  /\ CommandRead => ~stream.active /\ calls = [generate |-> 1, play |-> 1]
  /\ calls'.generate = 1 /\ calls.generate = 0 => ~stream.active
  /\ stream'.active /\ stream' # stream =>
       /\ ~stream.active
       /\ pc \in {"play", "play_sound"}
       /\ noise_signal # <<>>
       /\ stream'.frames = noise_signal[1].len
  /\ events' < events =>
       /\ pc = "mainloop"
       /\ ~stream.active
       /\ noise_signal = <<>>

C15_TurnTaking == []C15_Playing /\ [][C15_Step]_vars

\* a click on Play made during a playback waits in the queue
C15_ClickedWhilePlaying ==
  /\ pc = "sd.wait"
  /\ stream.active
  /\ events = 1

(***************************************************************************)
(* C16: a command changes at most one of centre, bandwidth and duration:   *)
(* '1' and '2' only the centre, '3' and '4' only the bandwidth, '5' and    *)
(* '6' only the duration, the others none; the sample rate is 44100 in     *)
(* every state and in the tuple returned.                                  *)
(***************************************************************************)
C16_Frame ==
  /\ user_input' \in {"1", "2"} => UNCHANGED <<bandwidth, duration_sec>>
  /\ user_input' \in {"3", "4"} => UNCHANGED <<centre_freq, duration_sec>>
  /\ user_input' \in {"5", "6"} => UNCHANGED <<centre_freq, bandwidth>>
  /\ user_input' \notin {"1", "2", "3", "4", "5", "6"} =>
       UNCHANGED <<centre_freq, bandwidth, duration_sec>>

C16_SampleRate ==
  /\ sample_rate = 44100
  /\ matched # <<>> => matched[1].sample_rate = 44100

C16_OneParameterPerCommand ==
  /\ []C16_SampleRate
  /\ [][CommandRead => C16_Frame]_vars
  /\ [][~CommandRead => UNCHANGED params]_vars

\* '4' then '5' then '2': each has moved its own parameter only
C16_EachMovedOnce ==
  /\ user_input = "2"
  /\ bandwidth = 270
  /\ duration_sec = 4
  /\ FLt(centre_freq, FFromInt(2000))
  /\ FLt(FFromInt(1587), centre_freq)

(***************************************************************************)
(* C17: when input() returns, exactly one synthesis and one playback of    *)
(* the current parameters have been made since it last returned, or since  *)
(* the start; and after every command but '0' the script goes to           *)
(* synthesize again.                                                       *)
(***************************************************************************)
C17_PlayedOnce ==
  /\ calls = [generate |-> 1, play |-> 1]
  /\ noise_signal = <<SignalOf(centre_freq, bandwidth, duration_sec)>>
  /\ stream = [active |-> FALSE, frames |-> duration_sec * 44100]
  /\ reached = <<"generate_white_noise", "butter", "lfilter">>

C17_Step ==
  /\ CommandRead => C17_PlayedOnce
  /\ CommandRead /\ user_input' # "0" => pc' = "generate" /\ calls' = NoCalls
  /\ calls'.generate <= 1 /\ calls'.play <= calls'.generate

C17_OnePlaybackPerCommand == [][C17_Step]_vars

\* the second command is about to be read, after '5'
C17_SecondTurn ==
  /\ user_input = "5"
  /\ pc = "input"
  /\ duration_sec = 4
  /\ calls = [generate |-> 1, play |-> 1]

(***************************************************************************)
(* C18: the tuple returned on '0' holds the parameters of the signal last  *)
(* generated and played, so the synthesis the script makes from the tuple  *)
(* afterwards succeeds and gives a signal of the same parameters and       *)
(* length.                                                                 *)
(***************************************************************************)
C18_Played(m) ==
  /\ m.sample_rate = 44100
  /\ noise_signal =
       <<[len |-> m.duration_sec * 44100, centre_freq |-> m.centre_freq,
          bandwidth |-> m.bandwidth, duration_sec |-> m.duration_sec]>>
  /\ stream = [active |-> FALSE, frames |-> noise_signal[1].len]
  /\ exception = <<>>
  /\ pc \in {"returned", "plot"}
  /\ pc = "plot" => matched_noise = noise_signal

C18_ReturnedWasPlayed == matched # <<>> => C18_Played(matched[1])

\* changed parameters were played, returned and synthesized again
C18_ChangedReturned ==
  /\ pc = "plot"
  /\ matched # <<>>
  /\ matched[1].bandwidth = 20
  /\ matched[1].duration_sec = 1
  /\ matched_noise # <<>>

(***************************************************************************)
(* C19: in the window, whatever the sliders are set to, the cut-offs that  *)
(* play_noise hands to the filter design lie strictly between 0 and 1 with *)
(* low < high, and the design never fails.                                 *)
(***************************************************************************)
C19_SlidersAlwaysDesign ==
  /\ exception = <<>>
  /\ reached # <<>> =>
       /\ reached = <<"generate_white_noise", "butter", "lfilter">>
       /\ butter(FDiv(wgui_LowCut(centre_freq, bandwidth), Nyquist(sample_rate)),
                 FDiv(wgui_HighCut(centre_freq, bandwidth, sample_rate),
                      Nyquist(sample_rate)))
====
